---- MODULE Spec2Model ----
(***************************************************************************)
(* A model of src/src/roll20api.ts: the Roll20Object class and its pool,   *)
(* the MOCKS query functions over the pool, and the event dispatcher       *)
(* (_fireEvent, on, onSheetWorkerCompleted), and the binding of the api     *)
(* object (util.getScope, the loop over MOCKS, WRAPPERS, _promote).        *)
(*                                                                         *)
(* JavaScript strings are sequences of one-character strings, so that      *)
(* toLowerCase, split(":") and join(":") are computed and not assumed.     *)
(* JavaScript values are records tagged with their typeof.                 *)
(***************************************************************************)
EXTENDS Integers, Sequences, FiniteSets, TLC

VARIABLES
  objs,      \* Roll20Object instances ever constructed: instance -> its _obj (a handle into bags)
  bags,      \* the objects used as _obj: handle -> (key -> value)
  pool,      \* Roll20Object.pool, in key insertion order: entries [k |-> key, v |-> instance]
  handlers,  \* MOCKS._handlers: event name -> array of registrations
  regs,      \* every registration made so far: [name, fn], in the order made
  calls,     \* how often each registration under "sheetWorkerCompleted" has been invoked
  stack,     \* the _fireEvent calls in progress, innermost last
  ret,       \* what the last completed call was, returned and threw
  target,    \* the ECMAScript target the file was compiled for
  api,       \* _api, the object library() returns as api: key -> value
  scopes,    \* the namespace objects: globalThis, the module's exports, and ns, one of the script's
  thisIs,    \* what this is at the top level of the file: "globalThis", "exports" or "undefined"
  cfg,       \* the configuration library() was called with: [mocks, wrappers]
  GM,        \* _GM
  campaign,  \* MOCKS._campaign: an instance, or 0 while it is undefined
  ops        \* how many calls the script has made on the instance

vars ==
  <<objs, bags, pool, handlers, regs, calls, stack, ret, target,
    api, scopes, thisIs, cfg, GM, campaign, ops>>

apiVars == <<api, scopes, thisIs, cfg, GM, campaign, ops>>

storeVars == <<objs, bags, pool>>
busVars == <<handlers, regs, calls, stack>>

----------------------------------------------------------------------------
(* Bounds of the model. *)

MaxObjs == 2
MaxRegs == 3
MaxDepth == 3
MaxCalls == 2
MaxWorked == 1
MaxOps == 3

----------------------------------------------------------------------------
(* Strings. *)

sheetWorkerCompleted == <<"s", "h", "e", "e", "t", "W", "o", "r", "k", "e", "r", "C", "o", "m", "p", "l", "e", "t", "e", "d">>
CHARACTER == <<"c", "h", "a", "r", "a", "c", "t", "e", "r">>
ATTRIBUTE == <<"a", "t", "t", "r", "i", "b", "u", "t", "e">>
HANDOUT == <<"h", "a", "n", "d", "o", "u", "t">>
PLAYER == <<"p", "l", "a", "y", "e", "r">>
CAMPAIGN == <<"c", "a", "m", "p", "a", "i", "g", "n">>
ObjectObject == <<"[", "o", "b", "j", "e", "c", "t", " ", "O", "b", "j", "e", "c", "t", "]">>
Abe == <<"A", "b", "e">>
abe == <<"a", "b", "e">>
Upper == <<"A", "B", "C", "D", "E", "F", "G", "H", "I", "J", "K", "L", "M", "N", "O", "P", "Q", "R", "S", "T", "U", "V", "W", "X", "Y", "Z">>
Lower == <<"a", "b", "c", "d", "e", "f", "g", "h", "i", "j", "k", "l", "m", "n", "o", "p", "q", "r", "s", "t", "u", "v", "w", "x", "y", "z">>

\* String.prototype.toLowerCase, on the ASCII letters.
toLowerCase(s) ==
  [i \in 1..Len(s) |->
     IF \E j \in 1..Len(Upper) : Upper[j] = s[i]
     THEN Lower[CHOOSE j \in 1..Len(Upper) : Upper[j] = s[i]]
     ELSE s[i]]

\* The identities util.uuid() returns are "x-" and a random tail.
Tails == <<"1", "2">>
Uuids == {<<"x", "-", Tails[i]>> : i \in 1..Len(Tails)}

----------------------------------------------------------------------------
(* Values. *)

Undefined == [t |-> "undefined"]
Str(s) == [t |-> "string", s |-> s]
Ref(b) == [t |-> "object", b |-> b]

typeof(v) == v.t

\* ToBoolean, as || uses it.
Truthy(v) ==
  CASE v.t = "undefined" -> FALSE
    [] v.t = "string" -> v.s # <<>>
    [] OTHER -> TRUE

\* a || b
Or(a, b) == IF Truthy(a) THEN a ELSE b

\* o[k] of a plain object
Prop(o, k) == IF k \in DOMAIN o THEN o[k] ELSE Undefined

\* o[k] = v
Put(o, k, v) == [x \in DOMAIN o \cup {k} |-> IF x = k THEN v ELSE o[x]]

\* {}
EmptyObject == [x \in {} |-> Undefined]

\* v.toString(): [s, threw]. undefined has no toString.
toString(v) ==
  CASE v.t = "string" -> [s |-> v.s, threw |-> ""]
    [] v.t = "object" -> [s |-> ObjectObject, threw |-> ""]
    [] OTHER -> [s |-> <<>>, threw |-> "TypeError"]

\* a != b (loose inequality)
LooseNeq(a, b) ==
  CASE a.t = "undefined" /\ b.t = "undefined" -> FALSE
    [] a.t = "string" /\ b.t = "string" -> a.s # b.s
    [] a.t = "object" /\ b.t = "object" -> a.b # b.b
    [] a.t = "object" /\ b.t = "string" -> ObjectObject # b.s
    [] a.t = "string" /\ b.t = "object" -> a.s # ObjectObject
    [] OTHER -> TRUE

\* arr.indexOf(x), 0-based, -1 when absent
indexOf(arr, x) ==
  IF \E i \in 1..Len(arr) : arr[i] = x
  THEN (CHOOSE i \in 1..Len(arr) : arr[i] = x /\ \A j \in 1..(i - 1) : arr[j] # x) - 1
  ELSE -1

----------------------------------------------------------------------------
(* Roll20Object and its pool. *)

ASYNC_TYPES == <<Str(CHARACTER), Str(HANDOUT)>>
ASYNC_FIELDS == <<"notes", "gmnotes", "bio">>
IMMUTABLE_KEYS == <<"_id", "id", "_type", "type">>

\* Roll20Object.pool[k]: the instance, or 0 for undefined
PoolGet(p, k) ==
  IF \E i \in 1..Len(p) : p[i].k = k
  THEN p[CHOOSE i \in 1..Len(p) : p[i].k = k].v
  ELSE 0

\* Roll20Object.pool[k] = e: an existing key keeps its place
PoolSet(p, k, e) ==
  IF \E i \in 1..Len(p) : p[i].k = k
  THEN [i \in 1..Len(p) |-> IF p[i].k = k THEN [k |-> k, v |-> e] ELSE p[i]]
  ELSE Append(p, [k |-> k, v |-> e])

\* delete Roll20Object.pool[k]
PoolDelete(p, k) == SelectSeq(p, LAMBDA x : x.k # k)

\* The property key a value is used as.
ToPropertyKey(v) ==
  CASE v.t = "string" -> v.s
    [] v.t = "object" -> ObjectObject
    [] OTHER -> <<"u", "n", "d", "e", "f", "i", "n", "e", "d">>

\* The store the operations below transform.
Store == [objs |-> objs, bags |-> bags, pool |-> pool]

\* get id()
id(st, e) == Prop(st.bags[st.objs[e]], "_id")

\* What util.uuid() may return: random tails are taken not to repeat, so it
\* is an identity no object carries yet.
uuid(st) ==
  {u \in Uuids : \A b \in 1..Len(st.bags) : Prop(st.bags[b], "_id") # Str(u)}

\* _id || util.uuid(): uuid() is called only when obj carries no truthy _id;
\* the empty string stands for no call.
uuidFor(st, obj) == IF Truthy(Prop(obj, "_id")) THEN {<<>>} ELSE uuid(st)

\* A variant of Roll20Object below: the pool is keyed by _type.
Roll20ObjectByType(st, b, u) ==
  LET o0 == st.bags[b]
      o1 == Put(o0, "_type", Or(Prop(o0, "_type"), Prop(o0, "type")))
      o2 == Put(o1, "_id", Or(Prop(o1, "_id"), Str(u)))
      this == Len(st.objs) + 1
  IN [objs |-> Append(st.objs, b),
      bags |-> [st.bags EXCEPT ![b] = o2],
      pool |-> PoolSet(st.pool, ToPropertyKey(o2["_type"]), this)]

\* new Roll20Object(obj), obj being bag b of st; u is what util.uuid() returns
\* when it is called.
Roll20Object(st, b, u) ==
  LET o0 == st.bags[b]
      o1 == Put(o0, "_type", Or(Prop(o0, "_type"), Prop(o0, "type")))
      o2 == Put(o1, "_id", Or(Prop(o1, "_id"), Str(u)))
      this == Len(st.objs) + 1
  IN [objs |-> Append(st.objs, b),
      bags |-> [st.bags EXCEPT ![b] = o2],
      pool |-> PoolSet(st.pool, ToPropertyKey(o2["_id"]), this)]

\* A variant of setKey below: an immutable key raises instead of being skipped.
setKeyThrowing(r, key, value) ==
  IF indexOf(IMMUTABLE_KEYS, key) > -1
  THEN [r EXCEPT !.threw = "Error"]
  ELSE [r EXCEPT !.o = Put(@, key, value)]

\* A variant of setKey below: every key is written.
setKeyUnchecked(r, key, value) == [r EXCEPT !.o = Put(@, key, value)]

\* The forEach callback of set and setWithWorker, on one key of the changes.
\* r is [o: the _obj, diag: error diagnostics emitted, threw].
setKey(r, key, value) ==
  IF indexOf(IMMUTABLE_KEYS, key) > -1
  THEN [r EXCEPT !.diag = @ + 1]
  ELSE [r EXCEPT !.o = Put(@, key, value)]

\* Object.keys(changes).forEach(...), changes being the sequence of its
\* <<key, value>> entries in key order; an exception ends the loop.
RECURSIVE forEachChange(_, _, _)
forEachChange(r, changes, i) ==
  IF i > Len(changes) \/ r.threw # ""
  THEN r
  ELSE forEachChange(setKey(r, changes[i][1], changes[i][2]), changes, i + 1)

\* set(changesOrKey, value): the object of the entries, or one key and its value
set(st, e, changesOrKey, value) ==
  LET allChanges == IF changesOrKey.t = "string"
                    THEN <<<<changesOrKey.k, value>>>>
                    ELSE changesOrKey.kv
      r == forEachChange([o |-> st.bags[st.objs[e]], diag |-> 0, threw |-> ""],
                         allChanges, 1)
  IN [st |-> [st EXCEPT !.bags[st.objs[e]] = r.o], diag |-> r.diag, threw |-> r.threw]

\* remove(): [st, out: <<e>> for this and <<>> for undefined, diag]
remove(st, e) ==
  IF PoolGet(st.pool, ToPropertyKey(id(st, e))) = e
  THEN [st |-> st, out |-> <<>>, diag |-> 1]
  ELSE [st |-> [st EXCEPT !.pool = PoolDelete(@, ToPropertyKey(id(st, e)))],
        out |-> <<e>>, diag |-> 0]

\* A variant of get below: no callback is ever required.
getAny(st, e, key) == [value |-> Prop(st.bags[st.objs[e]], key), threw |-> ""]

\* get(key) without a callback: [value, threw]
get(st, e, key) ==
  LET o == st.bags[st.objs[e]]
  IN IF /\ indexOf(ASYNC_TYPES, Prop(o, "_type")) > -1
        /\ indexOf(ASYNC_FIELDS, key) > -1
     THEN [value |-> Undefined, threw |-> "Error"]
     ELSE [value |-> Prop(o, key), threw |-> ""]

\* A variant of getCb below: the callback is called only for an asynchronous
\* field of an asynchronous type.
getCbAsyncOnly(st, e, key) ==
  LET o == st.bags[st.objs[e]]
  IN IF /\ indexOf(ASYNC_TYPES, Prop(o, "_type")) > -1
        /\ indexOf(ASYNC_FIELDS, key) > -1
     THEN [cb |-> <<Prop(o, key)>>, threw |-> ""]
     ELSE [cb |-> <<>>, threw |-> ""]

\* get(key, cb): [cb: the values cb is called with, in order; threw]. With a
\* cb neither test of get can throw, and cb(value) is the last statement.
getCb(st, e, key) ==
  [cb |-> <<Prop(st.bags[st.objs[e]], key)>>, threw |-> ""]

----------------------------------------------------------------------------
(* MOCKS: creation and the queries over the pool. *)

\* A variant of createObj below: the initializer is {type}.
createObjBare(st, type, obj, u) ==
  LET st0 == [st EXCEPT !.bags = Append(@, [type |-> Str(type)])]
  IN Roll20Object(st0, Len(st0.bags), u)

\* createObj(type, obj): the initializer is a fresh object {...obj, type}
createObj(st, type, obj, u) ==
  LET initializer == Put(obj, "type", Str(type))
      st0 == [st EXCEPT !.bags = Append(@, initializer)]
  IN Roll20Object(st0, Len(st0.bags), u)

\* getAllObjs()
getAllObjs(st) ==
  [i \in 1..Len(st.pool) |-> PoolGet(st.pool, st.pool[i].k)]

\* filterObjs(cb), cb being given by what it returns for each instance
filterObjs(st, cb) == SelectSeq(getAllObjs(st), LAMBDA e : cb[e])

\* Object.keys(testObj) of a Roll20Object: its one own property
OwnKeys == <<"_obj">>

\* testObj[key] of a Roll20Object
OwnProp(st, e, key) ==
  CASE key = "_obj" -> Ref(st.objs[e])
    [] key = "id" -> id(st, e)
    [] OTHER -> Undefined

\* One round of the forEach in the callback of findObjs; a is [found, threw].
findObjsKey(a, testValue, objValue, caseInsensitive) ==
  LET ts == toString(testValue)
      os == toString(objValue)
      a1 == IF /\ a.found
               /\ caseInsensitive
               /\ (typeof(objValue) = "string" \/ typeof(testValue) = "string")
            THEN IF ts.threw # "" \/ os.threw # ""
                 THEN [a EXCEPT !.threw = "TypeError"]
                 ELSE IF toLowerCase(ts.s) # toLowerCase(os.s)
                      THEN [a EXCEPT !.found = FALSE]
                      ELSE a
            ELSE a
  IN IF a1.threw = "" /\ a1.found /\ LooseNeq(testValue, objValue)
     THEN [a1 EXCEPT !.found = FALSE]
     ELSE a1

RECURSIVE findObjsKeys(_, _, _, _, _, _)
findObjsKeys(a, st, obj, caseInsensitive, testObj, i) ==
  IF i > Len(OwnKeys) \/ a.threw # ""
  THEN a
  ELSE findObjsKeys(
         findObjsKey(a, OwnProp(st, testObj, OwnKeys[i]), Prop(obj, OwnKeys[i]),
                     caseInsensitive),
         st, obj, caseInsensitive, testObj, i + 1)

\* The callback findObjs hands to filterObjs.
findObjsCb(st, obj, caseInsensitive, testObj) ==
  findObjsKeys([found |-> TRUE, threw |-> ""], st, obj, caseInsensitive, testObj, 1)

\* findObjs(obj, {caseInsensitive}): [out, threw]. Compiled for ES2015 or
\* later, "const filterObjs = filterObjs || ..." reads filterObjs before it is
\* initialised; compiled for ES5 it is a var and reads undefined.
findObjs(st, tgt, obj, caseInsensitive) ==
  IF tgt # "ES5"
  THEN [out |-> <<>>, threw |-> "ReferenceError"]
  ELSE IF \E i \in 1..Len(st.pool) :
            findObjsCb(st, obj, caseInsensitive, st.pool[i].v).threw # ""
       THEN [out |-> <<>>, threw |-> "TypeError"]
       ELSE [out |-> filterObjs(st, [e \in 1..Len(st.objs) |->
                                          findObjsCb(st, obj, caseInsensitive, e).found]),
             threw |-> ""]

----------------------------------------------------------------------------
(* The event dispatcher. *)

X == <<"x">>
XY == <<"x", ":", "y">>
Z == <<"z">>
SWCX == sheetWorkerCompleted \o <<":", "x">>

\* s.split(d), d one character: the segments of s
RECURSIVE split(_, _)
split(s, d) ==
  IF \E i \in 1..Len(s) : s[i] = d
  THEN LET i == CHOOSE i \in 1..Len(s) : s[i] = d /\ \A j \in 1..(i - 1) : s[j] # d
       IN <<SubSeq(s, 1, i - 1)>> \o split(SubSeq(s, i + 1, Len(s)), d)
  ELSE <<s>>

\* a.join(d)
RECURSIVE join(_, _)
join(a, d) ==
  IF Len(a) = 0 THEN <<>>
  ELSE IF Len(a) = 1 THEN a[1]
  ELSE a[1] \o <<d>> \o join(Tail(a), d)

\* a.pop(): a without its last element
pop(a) == SubSeq(a, 1, Len(a) - 1)

\* MOCKS._handlers[n] || []
HandlersOf(h, n) == IF n \in DOMAIN h THEN h[n] ELSE <<>>

\* The handler functions scripts register: what the body of each does.
Plain == [act |-> "none", name |-> <<>>]
Fires(n) == [act |-> "_fireEvent", name |-> n]
Registers(n) == [act |-> "on", name |-> n]
Works == [act |-> "setWithWorker", name |-> <<>>]

\* The changes the handler Works and the script pass to setWithWorker.
WorkerChanges == <<<<"_id", Str(<<"x", "-", "2">>)>>, <<"current", Str(abe)>>>>

\* The whole state, for the operations below to transform.
Machine ==
  [objs |-> objs, bags |-> bags, pool |-> pool, handlers |-> handlers,
   regs |-> regs, calls |-> calls, stack |-> stack, ret |-> ret]

Apply(m) ==
  /\ objs' = m.objs
  /\ bags' = m.bags
  /\ pool' = m.pool
  /\ handlers' = m.handlers
  /\ regs' = m.regs
  /\ calls' = m.calls
  /\ stack' = m.stack
  /\ ret' = m.ret
  /\ UNCHANGED <<target, api, scopes, thisIs, cfg, GM, campaign, ops>>

Result(op, e, arg, out, threw, diag) ==
  [op |-> op, e |-> e, arg |-> arg, out |-> out, threw |-> threw, diag |-> diag]

\* An exception no caller catches: every call in progress is abandoned, and
\* the outermost one is what the script sees throw.
throw(m, op, e, arg, err) ==
  [m EXCEPT !.stack = <<>>,
            !.ret = IF m.stack = <<>>
                    THEN Result(op, e, arg, <<>>, err, 0)
                    ELSE Result(m.stack[1].op, m.stack[1].e,
                                [name |-> m.stack[1].name, rest |-> m.stack[1].rest,
                                 h0 |-> m.stack[1].h0, h1 |-> m.handlers],
                                <<>>, err, 0)]

\* The subEvents _fireEvent starts from (none for "sheetWorkerCompleted").
subEventsOf(eventName) ==
  IF eventName = sheetWorkerCompleted THEN <<>> ELSE split(eventName, ":")

\* The frame of a call _fireEvent(eventName, ...rest): the handlers array of
\* its first forEach, and the place in it.
fireFrame(h, op, e, eventName, rest) ==
  LET subEvents == subEventsOf(eventName)
      n == IF eventName = sheetWorkerCompleted
           THEN eventName
           ELSE join(subEvents, ":")
  IN [op |-> op, e |-> e, name |-> eventName, rest |-> rest,
      once |-> (eventName = sheetWorkerCompleted),
      sub |-> subEvents, n |-> n, hs |-> HandlersOf(h, n), i |-> 1,
      log |-> <<>>, h0 |-> h]

\* A call of _fireEvent: a frame deeper than the engine's stack is a RangeError.
fireCall(m, op, e, eventName, rest) ==
  IF Len(m.stack) >= MaxDepth
  THEN throw(m, op, e,
             [name |-> eventName, rest |-> rest, h0 |-> m.handlers, h1 |-> m.handlers],
             "RangeError")
  ELSE [m EXCEPT !.stack = Append(@, fireFrame(m.handlers, op, e, eventName, rest))]

\* A variant of on below: a handler already registered under the name is
\* not registered again.
onUnique(m, eventName, handler) ==
  LET r == Len(m.regs) + 1
      hs == HandlersOf(m.handlers, eventName)
  IN [m EXCEPT !.handlers = IF \E i \in 1..Len(hs) : m.regs[hs[i]].fn = handler
                            THEN @
                            ELSE Put(@, eventName, Append(hs, r)),
               !.regs = Append(@, [name |-> eventName, fn |-> handler]),
               !.calls = Append(@, 0)]

\* on(eventName, handler), and onSheetWorkerCompleted(cb) for its own name
on(m, eventName, handler) ==
  LET r == Len(m.regs) + 1
  IN [m EXCEPT !.handlers = Put(@, eventName, Append(HandlersOf(@, eventName), r)),
               !.regs = Append(@, [name |-> eventName, fn |-> handler]),
               !.calls = Append(@, 0)]

onSheetWorkerCompleted(m, cb) == on(m, sheetWorkerCompleted, cb)

\* A variant of setWithWorker below: the type of the instance is not tested.
setWithWorkerAnyType(m, e, changes) ==
  LET r == forEachChange([o |-> m.bags[m.objs[e]], diag |-> 0, threw |-> ""],
                         changes, 1)
      m1 == [m EXCEPT !.bags[m.objs[e]] = r.o]
  IN IF r.threw # ""
     THEN throw(m1, "setWithWorker", e, changes, r.threw)
     ELSE fireCall(m1, "setWithWorker", e, sheetWorkerCompleted, <<>>)

\* A variant of setWithWorker below: "sheetWorkerCompleted" is fired before
\* the changes are written, so that its handlers run on the object as it was.
setWithWorkerFireFirst(m, e, changes) ==
  IF Prop(m.bags[m.objs[e]], "_type") # Str(ATTRIBUTE)
  THEN throw(m, "setWithWorker", e, changes, "Error")
  ELSE fireCall(m, "setWithWorker", e, sheetWorkerCompleted, <<>>)

\* e.setWithWorker(changes)
setWithWorker(m, e, changes) ==
  IF Prop(m.bags[m.objs[e]], "_type") # Str(ATTRIBUTE)
  THEN throw(m, "setWithWorker", e, changes, "Error")
  ELSE LET r == forEachChange([o |-> m.bags[m.objs[e]], diag |-> 0, threw |-> ""],
                              changes, 1)
           m1 == [m EXCEPT !.bags[m.objs[e]] = r.o]
       IN IF r.threw # ""
          THEN throw(m1, "setWithWorker", e, changes, r.threw)
          ELSE fireCall(m1, "setWithWorker", e, sheetWorkerCompleted, <<>>)

\* The arguments a handler is called with: the rest of the fire.
argsOf(f) == f.rest

\* handlers.forEach: the next handler of the innermost fire is called, and
\* its body runs to its end or to the call it makes.
invoke(m) ==
  LET d == Len(m.stack)
      f == m.stack[d]
      r == f.hs[f.i]
      fn == m.regs[r].fn
      m1 == [m EXCEPT !.stack[d].i = @ + 1,
                      !.stack[d].log = Append(@, [n |-> f.n, r |-> r, rest |-> argsOf(f)]),
                      !.calls[r] = IF m.regs[r].name = sheetWorkerCompleted /\ @ < MaxCalls
                                   THEN @ + 1
                                   ELSE @]
  IN CASE fn.act = "none" -> m1
       [] fn.act = "_fireEvent" -> fireCall(m1, "_fireEvent", 0, fn.name, <<>>)
       [] fn.act = "on" -> on(m1, fn.name, Plain)
       [] fn.act = "setWithWorker" -> setWithWorker(m1, 1, WorkerChanges)

\* A variant of nextLevel below: subEvents.shift() in place of subEvents.pop().
nextLevelShift(m) ==
  LET d == Len(m.stack)
      sub == Tail(m.stack[d].sub)
      n == join(sub, ":")
  IN [m EXCEPT !.stack[d].sub = sub, !.stack[d].n = n,
               !.stack[d].hs = HandlersOf(m.handlers, n), !.stack[d].i = 1]

\* subEvents.pop() and the next round of the while loop
nextLevel(m) ==
  LET d == Len(m.stack)
      sub == pop(m.stack[d].sub)
      n == join(sub, ":")
  IN [m EXCEPT !.stack[d].sub = sub, !.stack[d].n = n,
               !.stack[d].hs = HandlersOf(m.handlers, n), !.stack[d].i = 1]

\* A variant of cleared below: the list is left as it is.
clearedKept(h) == h

\* What is left of the one-shot list after its fire.
cleared(h) == Put(h, sheetWorkerCompleted, <<>>)

\* The innermost fire returns.
return(m) ==
  LET d == Len(m.stack)
      f == m.stack[d]
  IN [m EXCEPT !.stack = pop(@),
               !.handlers = IF f.once THEN cleared(@) ELSE @,
               !.ret = Result(f.op, f.e,
                              [name |-> f.name, rest |-> f.rest, h0 |-> f.h0,
                               h1 |-> IF f.once THEN cleared(m.handlers) ELSE m.handlers],
                              f.log, "", 0)]

----------------------------------------------------------------------------
(* The binding of the api object. *)

\* The keys of MOCKS the model binds, in the order MOCKS lists them.
kState == <<"s", "t", "a", "t", "e">>
kCampaign == <<"C", "a", "m", "p", "a", "i", "g", "n">>
kCreateObj == <<"c", "r", "e", "a", "t", "e", "O", "b", "j">>
kPlayerIsGM == <<"p", "l", "a", "y", "e", "r", "I", "s", "G", "M">>
kSendChat == <<"s", "e", "n", "d", "C", "h", "a", "t">>
MockKeys == <<kState, kCampaign, kCreateObj, kPlayerIsGM, kSendChat>>

\* cfg.scopeDelimiter of basiliskasterisk.util
scopeDelimiter == "."

\* A function: whose it is (of), under which key, and for the function a
\* wrapper returned the function it closes over (fn).
Fn(of, k) == [t |-> "function", of |-> of, k |-> k, fn |-> Undefined]

\* A namespace object, and an array of names.
Obj(kv) == [t |-> "object", kv |-> kv]
Arr(a) == [t |-> "array", a |-> a]

\* MOCKS: the mocks of the library, and over them those of cfg.mocks
MOCKS(c) ==
  [k \in {MockKeys[i] : i \in 1..Len(MockKeys)} \cup DOMAIN c.mocks |->
     IF k \in DOMAIN c.mocks THEN c.mocks[k]
     ELSE IF k = kState THEN Obj(EmptyObject)
     ELSE Fn("MOCKS", k)]

\* WRAPPERS: the wrapper of createObj, and over it those of cfg.wrappers
WRAPPERS(c) ==
  [k \in {kCreateObj} \cup DOMAIN c.wrappers |->
     IF k \in DOMAIN c.wrappers THEN c.wrappers[k] ELSE Fn("WRAPPERS", k)]

\* WRAPPERS[key](fn): the function a wrapper returns for fn
wrap(w, fn) == [t |-> "function", of |-> w.of, k |-> w.k, fn |-> fn]

\* The names getScope walks: the array, or nameOrNames.split(cfg.scopeDelimiter)
namesOf(nameOrNames) ==
  IF nameOrNames.t = "array" THEN nameOrNames.a
  ELSE split(nameOrNames.s, scopeDelimiter)

\* getScope(names, origin): the scope reached (s), and origin with the
\* objects the walk created on its way
RECURSIVE getScope(_, _)
getScope(names, origin) ==
  IF Len(names) = 0
  THEN [origin |-> origin, s |-> origin]
  ELSE LET name == Head(names)
           child == IF typeof(Prop(origin.kv, name)) = "undefined"
                    THEN Obj(EmptyObject)
                    ELSE origin.kv[name]
           r == getScope(Tail(names), child)
       IN [origin |-> Obj(Put(origin.kv, name, r.origin)), s |-> r.s]

\* origin with the scope at names replaced by s
RECURSIVE putScope(_, _, _)
putScope(names, origin, s) ==
  IF Len(names) = 0 THEN s
  ELSE Obj(Put(origin.kv, Head(names),
               putScope(Tail(names), origin.kv[Head(names)], s)))

\* The default of origin, "global || window || this || {}": inside the util
\* library global and window are its own vars, both undefined, so it is the
\* object this is, or with this undefined a new object.
originOf(sc, th, scope) ==
  LET root == IF scope = "undefined" THEN th ELSE scope
  IN [root |-> root,
      origin |-> IF root = "undefined" THEN Obj(EmptyObject) ELSE sc[root]]

\* util.getScope() of the binding loop: nameOrNames is "".
topLevelScope(sc, th) ==
  getScope(namesOf(Str(<<>>)), originOf(sc, th, "undefined").origin)

\* A variant of bind below: no wrapper is applied.
bindUnwrapped(sc, th, c, key) ==
  LET top == topLevelScope(sc, th).s
      found == Prop(top.kv, key)
  IN IF typeof(found) # "undefined" THEN found ELSE MOCKS(c)[key]

\* The value library() binds key to.
bind(sc, th, c, key) ==
  LET top == topLevelScope(sc, th).s
      found == Prop(top.kv, key)
      resolved == IF typeof(found) # "undefined" THEN found ELSE MOCKS(c)[key]
  IN IF Truthy(Prop(WRAPPERS(c), key))
     THEN wrap(WRAPPERS(c)[key], resolved)
     ELSE resolved

\* The namespaces after the binding loop: getScope has created the object
\* it looked the keys up in, when this is an object.
bound(sc, th) ==
  IF th = "undefined" THEN sc
  ELSE [sc EXCEPT ![th] = topLevelScope(sc, th).origin]

\* A call of the value v: the functions entered, outermost first, the
\* innermost of them (base), and the TypeError of calling what is no function.
RECURSIVE enter(_)
enter(v) ==
  IF typeof(v) # "function"
  THEN [log |-> <<>>, base |-> Fn("none", <<>>), threw |-> "TypeError"]
  ELSE IF typeof(v.fn) = "undefined"
  THEN [log |-> <<[of |-> v.of, k |-> v.k]>>, base |-> v, threw |-> ""]
  ELSE LET r == enter(v.fn)
       IN [log |-> <<[of |-> v.of, k |-> v.k]>> \o r.log, base |-> r.base,
           threw |-> r.threw]

\* The keys _promote copies: those of _api, or the one key or the keys given
promotionKeys(a, keys) ==
  IF keys.t = "string" THEN {keys.s}
  ELSE IF keys.t = "array" THEN {keys.a[i] : i \in 1..Len(keys.a)}
  ELSE DOMAIN a

\* A variant of promote below: every key of _api is copied, whatever keys is.
promoteAll(sc, a, th, keys, nameOrNames, scope) ==
  LET o == originOf(sc, th, scope)
      names == namesOf(nameOrNames)
      g == getScope(names, o.origin)
      s == Obj([x \in DOMAIN g.s.kv \cup DOMAIN a |->
                  IF x \in DOMAIN a THEN Prop(a, x) ELSE g.s.kv[x]])
  IN [scopes |-> IF o.root = "undefined" THEN sc
                 ELSE [sc EXCEPT ![o.root] = putScope(names, g.origin, s)],
      api |-> a,
      s |-> s]

\* A variant of promote below: the keys copied are bound again, to the mocks.
promoteRebinding(sc, a, th, keys, nameOrNames, scope) ==
  LET o == originOf(sc, th, scope)
      names == namesOf(nameOrNames)
      g == getScope(names, o.origin)
      p == promotionKeys(a, keys)
      s == Obj([x \in DOMAIN g.s.kv \cup p |->
                  IF x \in p THEN Prop(a, x) ELSE g.s.kv[x]])
  IN [scopes |-> IF o.root = "undefined" THEN sc
                 ELSE [sc EXCEPT ![o.root] = putScope(names, g.origin, s)],
      api |-> [x \in DOMAIN a |-> IF x \in p THEN Fn("MOCKS", x) ELSE a[x]],
      s |-> s]

\* _promote(keys, nameOrNames, scope): the namespaces and _api after it, and
\* the scope s it returns
promote(sc, a, th, keys, nameOrNames, scope) ==
  LET o == originOf(sc, th, scope)
      names == namesOf(nameOrNames)
      g == getScope(names, o.origin)
      p == promotionKeys(a, keys)
      s == Obj([x \in DOMAIN g.s.kv \cup p |->
                  IF x \in p THEN Prop(a, x) ELSE g.s.kv[x]])
  IN [scopes |-> IF o.root = "undefined" THEN sc
                 ELSE [sc EXCEPT ![o.root] = putScope(names, g.origin, s)],
      api |-> a,
      s |-> s]

----------------------------------------------------------------------------
(* The hosts the file is loaded in and the configurations of library(). *)

HostFn(k) == Fn("host", k)

\* The globals of a Roll20 host: its state, createObj and sendChat.
Roll20Globals ==
  Obj(Put(Put(Put(EmptyObject, kState, Obj(EmptyObject)),
              kCreateObj, HostFn(kCreateObj)), kSendChat, HostFn(kSendChat)))

\* node.js: the file is a CommonJS module, this is its exports.
Node == [this |-> "exports", globalThis |-> Obj(EmptyObject)]

Hosts ==
  { Node,
    [this |-> "exports", globalThis |-> Roll20Globals],
    [this |-> "globalThis", globalThis |-> Roll20Globals],
    [this |-> "undefined", globalThis |-> Roll20Globals],
    [this |-> "globalThis",
     globalThis |-> Obj(Put(EmptyObject, <<>>, Roll20Globals))],
    [this |-> "globalThis",
     globalThis |-> Obj(Put(EmptyObject, <<>>,
                            Obj(Put(Put(EmptyObject, kCreateObj, Str(abe)),
                                    kSendChat, Str(abe)))))] }

defaultConfiguration == [mocks |-> EmptyObject, wrappers |-> EmptyObject]

Configurations ==
  { defaultConfiguration,
    [mocks |-> EmptyObject,
     wrappers |-> Put(EmptyObject, kSendChat, Fn("cfg.wrappers", kSendChat))],
    [mocks |-> Put(EmptyObject, kSendChat, Fn("cfg.mocks", kSendChat)),
     wrappers |-> EmptyObject] }

\* The namespace object ns of the script, as it is before any call.
Namespace ==
  Obj(Put(Put(EmptyObject, kSendChat, Str(abe)), kPlayerIsGM, Str(abe)))

----------------------------------------------------------------------------
(* The state after library(config) in a host: nothing pooled, nothing
   registered, every key of MOCKS bound. *)

Constructed(h, c) ==
  LET sc == [globalThis |-> h.globalThis, exports |-> Obj(EmptyObject),
             ns |-> Namespace]
  IN /\ objs = <<>>
     /\ bags = <<>>
     /\ pool = <<>>
     /\ handlers = EmptyObject
     /\ regs = <<>>
     /\ calls = <<>>
     /\ stack = <<>>
     /\ ret = Result("library", 0, <<>>, <<>>, "", 0)
     /\ api = [k \in DOMAIN MOCKS(c) |-> bind(sc, h.this, c, k)]
     /\ scopes = bound(sc, h.this)
     /\ thisIs = h.this
     /\ cfg = c
     /\ GM = Undefined
     /\ campaign = 0
     /\ ops = 0

Init ==
  /\ Constructed(Node, defaultConfiguration)
  /\ target \in {"ES5", "ES2015"}

----------------------------------------------------------------------------
(* What scripts call with. *)

\* Initializers handed to new Roll20Object.
Initializers ==
  { [type |-> Str(PLAYER)],
    [type |-> Str(CHARACTER), name |-> Str(Abe)],
    [type |-> Str(PLAYER), _id |-> Str(<<"x", "-", "1">>)] }

\* The obj argument of createObj.
CreateArgs ==
  {[_id |-> Str(<<"x", "-", "1">>)], [name |-> Str(Abe), type |-> Str(PLAYER)]}

\* The arguments of set: one key and its value, or an object of changes.
Key(k) == [t |-> "string", k |-> k]
Changes(kv) == [t |-> "object", kv |-> kv]

SetArgs ==
  { <<Key("_id"), Str(<<"x", "-", "2">>)>>,
    <<Changes(<<<<"_id", Str(<<"x", "-", "1">>)>>, <<"notes", Str(abe)>>,
                <<"type", Str(PLAYER)>>>>), Undefined>>,
    <<Changes(<<<<"_type", Str(ATTRIBUTE)>>, <<"id", Str(abe)>>>>), Undefined>> }

\* The callbacks handed to filterObjs.
Callbacks == {"character"}

callCb(st, c, e) ==
  CASE c = "character" -> get(st, e, "type").value = Str(CHARACTER)
    [] OTHER -> TRUE

\* The keys handed to get.
GetKeys == {"name", "notes"}

\* The search keys handed to findObjs, each with its caseInsensitive option.
SearchKeys ==
  { [obj |-> [type |-> Str(CHARACTER)], caseInsensitive |-> FALSE],
    [obj |-> [name |-> Str(abe)], caseInsensitive |-> TRUE],
    [obj |-> [_obj |-> Str(ObjectObject)], caseInsensitive |-> FALSE] }

----------------------------------------------------------------------------
(* The calls a script makes on the store. *)

ApplyStore(st, r) ==
  /\ objs' = st.objs
  /\ bags' = st.bags
  /\ pool' = st.pool
  /\ ret' = r
  /\ UNCHANGED <<handlers, regs, calls, stack, target>>
  /\ UNCHANGED <<api, scopes, thisIs, cfg, GM, campaign, ops>>

\* new Roll20Object(obj) with a fresh object
New(obj, u) ==
  /\ stack = <<>>
  /\ Len(objs) < MaxObjs
  /\ LET st0 == [Store EXCEPT !.bags = Append(@, obj)]
     IN ApplyStore(Roll20Object(st0, Len(st0.bags), u),
                   Result("new", Len(objs) + 1, obj, <<>>, "", 0))

\* new Roll20Object(obj) with an object an instance was constructed from before
NewAgain(b, u) ==
  /\ stack = <<>>
  /\ Len(objs) < MaxObjs
  /\ ApplyStore(Roll20Object(Store, b, u),
                Result("new", Len(objs) + 1, bags[b], <<>>, "", 0))

\* createObj(type, obj)
CreateObj(type, obj, u) ==
  /\ stack = <<>>
  /\ Len(objs) < MaxObjs
  /\ ApplyStore(createObj(Store, type, obj, u),
                Result("createObj", Len(objs) + 1, [type |-> type, obj |-> obj],
                       <<>>, "", 0))

\* e.set(changesOrKey, value)
Set(e, a) ==
  /\ stack = <<>>
  /\ LET r == set(Store, e, a[1], a[2])
     IN ApplyStore(r.st, Result("set", e, a, <<>>, r.threw, r.diag))

\* e.remove()
Remove(e) ==
  /\ stack = <<>>
  /\ LET r == remove(Store, e)
     IN ApplyStore(r.st,
                   Result("remove", e,
                          [occupant |-> PoolGet(pool, ToPropertyKey(id(Store, e))) = e,
                           pool |-> pool],
                          r.out, "", r.diag))

\* e.get(key), and e.get(key, cb) when withCb: out is what get returns, or
\* with a cb what the cb is called with.
Get(e, key, withCb) ==
  /\ stack = <<>>
  /\ LET r == IF withCb THEN getCb(Store, e, key) ELSE get(Store, e, key)
         out == IF withCb THEN r.cb ELSE IF r.threw = "" THEN <<r.value>> ELSE <<>>
     IN ApplyStore(Store, Result("get", e, [key |-> key, cb |-> withCb], out, r.threw, 0))

\* getAllObjs()
GetAllObjs ==
  /\ stack = <<>>
  /\ ApplyStore(Store, Result("getAllObjs", 0, <<>>, getAllObjs(Store), "", 0))

\* filterObjs(cb)
FilterObjs(c) ==
  /\ stack = <<>>
  /\ ApplyStore(Store,
                Result("filterObjs", 0, c,
                       filterObjs(Store, [e \in 1..Len(objs) |-> callCb(Store, c, e)]), "", 0))

\* findObjs(obj, {caseInsensitive})
FindObjs(obj, caseInsensitive) ==
  /\ stack = <<>>
  /\ LET r == findObjs(Store, target, obj, caseInsensitive)
     IN ApplyStore(Store,
                   Result("findObjs", 0, [obj |-> obj, caseInsensitive |-> caseInsensitive],
                          r.out, r.threw, 0))

Next ==
  \/ \E obj \in Initializers : \E u \in uuidFor(Store, obj) : New(obj, u)
  \/ \E b \in 1..Len(bags) : \E u \in uuidFor(Store, bags[b]) : NewAgain(b, u)
  \/ \E obj \in CreateArgs : \E u \in uuidFor(Store, obj) : CreateObj(CHARACTER, obj, u)
  \/ \E e \in 1..Len(objs), a \in SetArgs : Set(e, a)
  \/ \E e \in 1..Len(objs) : Remove(e)
  \/ \E e \in 1..Len(objs), key \in GetKeys, withCb \in BOOLEAN : Get(e, key, withCb)
  \/ GetAllObjs
  \/ \E c \in Callbacks : FilterObjs(c)
  \/ \E a \in SearchKeys : FindObjs(a.obj, a.caseInsensitive)

Spec == Init /\ [][Next]_vars

----------------------------------------------------------------------------
(* The calls a script makes on the dispatcher, and the steps of a fire. *)

\* The handlers a script registers with on(eventName, handler).
OnArgs ==
  { <<XY, Plain>>, <<X, Plain>>, <<Z, Plain>>, <<XY, Fires(Z)>>, <<XY, Registers(X)>>,
    <<SWCX, Plain>> }

\* The callbacks a script registers with onSheetWorkerCompleted(cb).
OnceArgs == {Plain, Fires(sheetWorkerCompleted), Registers(sheetWorkerCompleted)}

\* The events a script fires, each with the rest of its arguments.
FireArgs ==
  { <<X, <<>>>>, <<XY, <<"Foo">>>>, <<Z, <<>>>>, <<SWCX, <<"Foo">>>>,
    <<sheetWorkerCompleted, <<>>>> }

Top == stack[Len(stack)]

\* on(eventName, handler)
On(eventName, handler) ==
  /\ stack = <<>>
  /\ Len(regs) < MaxRegs
  /\ Apply([on(Machine, eventName, handler) EXCEPT
              !.ret = Result("on", 0, <<>>, <<>>, "", 0)])

\* onSheetWorkerCompleted(cb)
OnSheetWorkerCompleted(cb) ==
  /\ stack = <<>>
  /\ Len(regs) < MaxRegs
  /\ Apply([onSheetWorkerCompleted(Machine, cb) EXCEPT
              !.ret = Result("on", 0, <<>>, <<>>, "", 0)])

\* _fireEvent(eventName, ...rest) is called by the script
FireEvent(eventName, rest) ==
  /\ stack = <<>>
  /\ Apply(fireCall(Machine, "_fireEvent", 0, eventName, rest))

\* Whether the body of the handler about to be called can run in the model.
CanRun(fn) ==
  CASE fn.act = "on" -> Len(regs) < MaxRegs
    [] fn.act = "setWithWorker" -> Len(objs) >= 1
    [] OTHER -> TRUE

\* The next handler of the innermost forEach is called.
Invoke ==
  /\ stack # <<>>
  /\ Top.i <= Len(Top.hs)
  /\ CanRun(regs[Top.hs[Top.i]].fn)
  /\ Apply(invoke(Machine))

\* The innermost forEach is over, and subEvents still has a name after the pop.
NextLevel ==
  /\ stack # <<>>
  /\ Top.i > Len(Top.hs)
  /\ Len(Top.sub) > 1
  /\ Apply(nextLevel(Machine))

\* The innermost _fireEvent returns.
Return ==
  /\ stack # <<>>
  /\ Top.i > Len(Top.hs)
  /\ Len(Top.sub) <= 1
  /\ Apply(return(Machine))

BusNext ==
  \/ \E a \in OnArgs : On(a[1], a[2])
  \/ \E cb \in OnceArgs : OnSheetWorkerCompleted(cb)
  \/ \E a \in FireArgs : FireEvent(a[1], a[2])
  \/ Invoke
  \/ NextLevel
  \/ Return

\* The dispatcher does not depend on the compilation target.
BusInit == Init /\ target = "ES5"

BusSpec == BusInit /\ [][BusNext]_vars

----------------------------------------------------------------------------
(* setWithWorker and the one-shot list. *)

\* The callbacks a script registers while it works with an attribute.
WorkerOnceArgs == {Plain, Works}

\* e.setWithWorker(changes) is called by the script
SetWithWorker(e, changes) ==
  /\ stack = <<>>
  /\ Apply(setWithWorker(Machine, e, changes))

\* createObj(type, {}) of the object the script works with
CreateWorked(type, u) ==
  /\ stack = <<>>
  /\ Len(objs) < MaxWorked
  /\ ApplyStore(createObj(Store, type, EmptyObject, u),
                Result("createObj", Len(objs) + 1, [type |-> type, obj |-> EmptyObject],
                       <<>>, "", 0))

WorkerNext ==
  \/ \E type \in {ATTRIBUTE, CHARACTER} : \E u \in uuidFor(Store, EmptyObject) : CreateWorked(type, u)
  \/ \E cb \in WorkerOnceArgs : OnSheetWorkerCompleted(cb)
  \/ \E e \in 1..Len(objs) : SetWithWorker(e, WorkerChanges)
  \/ \E a \in {<<sheetWorkerCompleted, <<>>>>, <<SWCX, <<>>>>} : FireEvent(a[1], a[2])
  \/ Invoke
  \/ NextLevel
  \/ Return

WorkerSpec == BusInit /\ [][WorkerNext]_vars

----------------------------------------------------------------------------
(* The calls a script makes on a library instance: through the api object,
   on its Roll20Objects, and on what library() returns beside them. *)

ApiApply(m, a, sc, g, c) ==
  /\ objs' = m.objs
  /\ bags' = m.bags
  /\ pool' = m.pool
  /\ handlers' = m.handlers
  /\ regs' = m.regs
  /\ calls' = m.calls
  /\ stack' = m.stack
  /\ ret' = m.ret
  /\ api' = a
  /\ scopes' = sc
  /\ GM' = g
  /\ campaign' = c
  /\ ops' = ops + 1
  /\ UNCHANGED <<target, thisIs, cfg>>

\* The outcomes of a function called: one of the host returns or throws.
Throws(v) == IF enter(v).base.of = "host" THEN BOOLEAN ELSE {FALSE}

\* What a call of api[k] throws: the TypeError of calling what is no
\* function, or what the innermost function throws; a wrapper passes it on.
thrown(v, hostThrows) ==
  IF enter(v).threw # "" THEN enter(v).threw
  ELSE IF hostThrows THEN "Error"
  ELSE ""

\* The record of a call of api[k]
Called(k, e, hostThrows, diag) ==
  Result("api", e, [k |-> k, fn |-> api[k], hostThrows |-> hostThrows],
         enter(api[k]).log, thrown(api[k], hostThrows), diag)

\* Whether a call of v reaches the mock of the library under k.
Mocked(v, k) ==
  /\ enter(v).threw = ""
  /\ enter(v).base = Fn("MOCKS", k)

\* api.createObj(type, {})
ApiCreateObj(type, u, hostThrows) ==
  /\ ops < MaxOps
  /\ stack = <<>>
  /\ Len(objs) < MaxObjs
  /\ LET mocked == Mocked(api[kCreateObj], kCreateObj)
         st == IF mocked THEN createObj(Store, type, EmptyObject, u) ELSE Store
     IN ApiApply([Machine EXCEPT
                    !.objs = st.objs, !.bags = st.bags, !.pool = st.pool,
                    !.ret = Called(kCreateObj, IF mocked THEN Len(objs) + 1 ELSE 0,
                                   hostThrows, 0)],
                 api, scopes, GM, campaign)

\* api.sendChat(speakingAs, message, cb): the mock logs and calls cb([]).
ApiSendChat(hostThrows) ==
  /\ ops < MaxOps
  /\ stack = <<>>
  /\ ApiApply([Machine EXCEPT
                 !.ret = Called(kSendChat, 0, hostThrows,
                                IF Mocked(api[kSendChat], kSendChat) THEN 1 ELSE 0)],
              api, scopes, GM, campaign)

\* A variant of ApiCampaign below: the mock constructs a campaign at every
\* call.
ApiCampaignAgain(u) ==
  /\ ops < MaxOps
  /\ stack = <<>>
  /\ Len(objs) < MaxObjs
  /\ LET mocked == Mocked(api[kCampaign], kCampaign)
         st0 == [Store EXCEPT !.bags = Append(@, [type |-> Str(CAMPAIGN)])]
         st == IF mocked THEN Roll20Object(st0, Len(st0.bags), u) ELSE Store
         c == IF mocked THEN Len(objs) + 1 ELSE campaign
     IN ApiApply([Machine EXCEPT
                    !.objs = st.objs, !.bags = st.bags, !.pool = st.pool,
                    !.ret = Called(kCampaign, IF mocked THEN c ELSE 0, FALSE, 0)],
                 api, scopes, GM, c)

\* api.Campaign(): the mock constructs the campaign when there is none yet.
ApiCampaign(u) ==
  /\ ops < MaxOps
  /\ stack = <<>>
  /\ campaign # 0 \/ Len(objs) < MaxObjs
  /\ LET mocked == Mocked(api[kCampaign], kCampaign)
         made == mocked /\ campaign = 0
         st0 == [Store EXCEPT !.bags = Append(@, [type |-> Str(CAMPAIGN)])]
         st == IF made THEN Roll20Object(st0, Len(st0.bags), u) ELSE Store
         c == IF made THEN Len(objs) + 1 ELSE campaign
     IN ApiApply([Machine EXCEPT
                    !.objs = st.objs, !.bags = st.bags, !.pool = st.pool,
                    !.ret = Called(kCampaign, IF mocked THEN c ELSE 0, FALSE, 0)],
                 api, scopes, GM, c)

\* _setAsGM(playerId)
SetAsGM(playerId) ==
  /\ ops < MaxOps
  /\ stack = <<>>
  /\ ApiApply([Machine EXCEPT
                 !.ret = Result("_setAsGM", 0, [playerId |-> playerId], <<>>, "", 0)],
              api, scopes, playerId, campaign)

\* The player identities scripts pass to _setAsGM and playerIsGM.
PlayerIds == {Str(<<"x", "-", "1">>), Str(<<"x", "-", "2">>)}

\* A variant of playerIsGM below: any player is GM once one has been set.
playerIsGMOnceSet(g, playerId) == g # Undefined

\* MOCKS.playerIsGM(playerId), g being _GM
playerIsGM(g, playerId) == g = playerId

\* api.playerIsGM(playerId); diag 1 stands for the answer true of the mock.
ApiPlayerIsGM(playerId) ==
  /\ ops < MaxOps
  /\ stack = <<>>
  /\ ApiApply([Machine EXCEPT
                 !.ret = Result("api", 0,
                                [k |-> kPlayerIsGM, fn |-> api[kPlayerIsGM],
                                 hostThrows |-> FALSE, playerId |-> playerId],
                                enter(api[kPlayerIsGM]).log, thrown(api[kPlayerIsGM], FALSE),
                                IF /\ Mocked(api[kPlayerIsGM], kPlayerIsGM)
                                   /\ playerIsGM(GM, playerId)
                                THEN 1 ELSE 0)],
              api, scopes, GM, campaign)

\* The arguments of _promote; scope names a namespace object, or is undefined.
PromoteArgs ==
  { [keys |-> Undefined, nameOrNames |-> Arr(<<>>), scope |-> "ns"],
    [keys |-> Str(kSendChat), nameOrNames |-> Arr(<<>>), scope |-> "ns"],
    [keys |-> Arr(<<kCreateObj, kState>>), nameOrNames |-> Str(X), scope |-> "ns"],
    [keys |-> Str(kSendChat), nameOrNames |-> Arr(<<>>), scope |-> "undefined"] }

\* _promote(keys, nameOrNames, scope)
Promote(a) ==
  /\ ops < MaxOps
  /\ stack = <<>>
  /\ LET r == promote(scopes, api, thisIs, a.keys, a.nameOrNames, a.scope)
     IN ApiApply([Machine EXCEPT
                    !.ret = Result("_promote", 0, a, <<r.s>>, "", 0)],
                 r.api, r.scopes, GM, campaign)

\* api[k] = v, an assignment of the script
Assign(k, v) ==
  /\ ops < MaxOps
  /\ stack = <<>>
  /\ ApiApply([Machine EXCEPT
                 !.ret = Result("assign", 0, [k |-> k, v |-> v], <<>>, "", 0)],
              Put(api, k, v), scopes, GM, campaign)

\* e.set(changes)
SetOp(e, changes) ==
  /\ ops < MaxOps
  /\ stack = <<>>
  /\ LET r == set(Store, e, Changes(changes), Undefined)
     IN ApiApply([Machine EXCEPT
                    !.objs = r.st.objs, !.bags = r.st.bags, !.pool = r.st.pool,
                    !.ret = Result("set", e, [changes |-> changes], <<>>, r.threw, r.diag)],
                 api, scopes, GM, campaign)

\* e.remove()
RemoveOp(e) ==
  /\ ops < MaxOps
  /\ stack = <<>>
  /\ LET r == remove(Store, e)
     IN ApiApply([Machine EXCEPT
                    !.objs = r.st.objs, !.bags = r.st.bags, !.pool = r.st.pool,
                    !.ret = Result("remove", e, [pool |-> pool], r.out, "", r.diag)],
                 api, scopes, GM, campaign)

\* e.setWithWorker(changes)
SetWithWorkerOp(e, changes) ==
  /\ ops < MaxOps
  /\ stack = <<>>
  /\ ApiApply(setWithWorker(Machine, e, changes), api, scopes, GM, campaign)

\* on(eventName, handler) and onSheetWorkerCompleted(handler)
OnOp(eventName, handler) ==
  /\ ops < MaxOps
  /\ stack = <<>>
  /\ Len(regs) < MaxRegs
  /\ ApiApply([on(Machine, eventName, handler) EXCEPT
                 !.ret = Result("on", 0, [name |-> eventName], <<>>, "", 0)],
              api, scopes, GM, campaign)

\* _fireEvent(eventName)
FireOp(eventName) ==
  /\ ops < MaxOps
  /\ stack = <<>>
  /\ ApiApply(fireCall(Machine, "_fireEvent", 0, eventName, <<>>),
              api, scopes, GM, campaign)

ApiNext ==
  \/ \E u \in uuidFor(Store, EmptyObject) :
       \E hostThrows \in Throws(api[kCreateObj]) : ApiCreateObj(ATTRIBUTE, u, hostThrows)
  \/ \E hostThrows \in Throws(api[kSendChat]) : ApiSendChat(hostThrows)
  \/ \E u \in IF campaign # 0 THEN {<<>>} ELSE uuidFor(Store, EmptyObject) : ApiCampaign(u)
  \/ \E playerId \in PlayerIds : SetAsGM(playerId)
  \/ \E playerId \in PlayerIds : ApiPlayerIsGM(playerId)
  \/ \E a \in PromoteArgs : Promote(a)
  \/ Assign(kSendChat, Fn("script", kSendChat))
  \/ \E e \in 1..Len(objs) : SetOp(e, <<<<"notes", Str(abe)>>>>)
  \/ \E e \in 1..Len(objs) : RemoveOp(e)
  \/ \E e \in 1..Len(objs) : SetWithWorkerOp(e, WorkerChanges)
  \/ \E n \in {X, sheetWorkerCompleted} : OnOp(n, Plain)
  \/ \E n \in {XY, sheetWorkerCompleted} : FireOp(n)
  \/ Invoke
  \/ NextLevel
  \/ Return

ApiInit ==
  /\ \E h \in Hosts, c \in Configurations : Constructed(h, c)
  /\ target = "ES5"

ApiSpec == ApiInit /\ [][ApiNext]_vars

----------------------------------------------------------------------------
(* The claims. *)

\* The identity of instance e, as a script reads it.
Id(e) == id(Store, e)

\* The instances getAllObjs() lists.
Listed == {getAllObjs(Store)[i] : i \in 1..Len(pool)}

\* The entries of the changes a set was called with.
EntriesOf(a) == IF a[1].t = "string" THEN <<<<a[1].k, a[2]>>>> ELSE a[1].kv

ImmutableNames == {"_id", "id", "_type", "type"}

\* C1: the identity an Entity has after construction never changes: no call,
\* and so no sequence of set calls with one key or a batch, changes what
\* reading the identity of an existing Entity returns.
C1_IdentityStable ==
  [][\A e \in 1..Len(objs) : Id(e)' = Id(e)]_vars

\* A set naming _id with another value than the identity has been made.
C1_Witness ==
  /\ ret.op = "set"
  /\ \E i \in 1..Len(EntriesOf(ret.arg)) :
       /\ EntriesOf(ret.arg)[i][1] = "_id"
       /\ EntriesOf(ret.arg)[i][2] # Id(ret.e)

\* C2: a set does not raise, and after it every mutable key of its batch
\* holds the new value and every immutable key of its batch the value it had
\* before the call, wherever in the batch the immutable keys stand.
C2_MixedBatch ==
  [][ret'.op = "set" =>
       LET kv == EntriesOf(ret'.arg)
           before == bags[objs[ret'.e]]
           after == bags'[objs'[ret'.e]]
       IN /\ ret'.threw = ""
          /\ \A i \in 1..Len(kv) :
               IF kv[i][1] \in ImmutableNames
               THEN Prop(after, kv[i][1]) = Prop(before, kv[i][1])
               ELSE Prop(after, kv[i][1]) = kv[i][2]]_vars

\* A batch with an immutable key first, a mutable key after it and an
\* immutable key last has been set, the immutable values being new ones.
C2_Witness ==
  /\ ret.op = "set"
  /\ ret.arg[1].t = "object"
  /\ LET kv == ret.arg[1].kv
         o == bags[objs[ret.e]]
     IN /\ Len(kv) = 3
        /\ kv[1][1] \in ImmutableNames /\ kv[1][2] # Prop(o, kv[1][1])
        /\ kv[2][1] \notin ImmutableNames /\ kv[2][2] = Prop(o, kv[2][1])
        /\ kv[3][1] \in ImmutableNames /\ kv[3][2] # Prop(o, kv[3][1])

\* C6: remove() on an Entity that is the occupant of its identity
\* de-registers it: getAllObjs() no longer lists it.
C6_RemoveDeregisters ==
  (ret.op = "remove" /\ ret.arg.occupant) => ret.e \notin Listed

\* C7: remove() on an Entity that is not the occupant of its identity
\* leaves the pool as it was before the call.
C7_RemoveOfNonOccupant ==
  (ret.op = "remove" /\ ~ret.arg.occupant) => pool = ret.arg.pool

\* The listed instances whose fields equal the search key's value for every
\* key of the search key.
Matching(obj) ==
  {e \in Listed : \A k \in DOMAIN obj : Prop(bags[objs[e]], k) = obj[k]}

\* C8: findObjs(obj, {caseInsensitive: false}), when it returns, returns
\* exactly the listed Entities whose fields equal obj's value for every key of
\* obj.
C8_FindObjsExact ==
  (ret.op = "findObjs" /\ ~ret.arg.caseInsensitive /\ ret.threw = "")
    => {ret.out[i] : i \in 1..Len(ret.out)} = Matching(ret.arg.obj)

\* Two values are equal, strings up to letter case.
FoldEqual(a, b) ==
  IF a.t = "string" /\ b.t = "string" THEN toLowerCase(a.s) = toLowerCase(b.s) ELSE a = b

\* C9: findObjs(obj, {caseInsensitive: true}), when it returns, returns every
\* listed Entity whose fields equal obj's values up to the letter case of
\* strings.
C9_FindObjsFolded ==
  (ret.op = "findObjs" /\ ret.arg.caseInsensitive /\ ret.threw = "")
    => \A e \in Listed :
         (\A k \in DOMAIN ret.arg.obj : FoldEqual(Prop(bags[objs[e]], k), ret.arg.obj[k]))
           => \E i \in 1..Len(ret.out) : ret.out[i] = e

\* C10: every Entity getAllObjs, filterObjs or findObjs returns is the one
\* the pool holds under that Entity's own identity.
C10_ListedIsLookedUp ==
  ret.op \in {"getAllObjs", "filterObjs", "findObjs"}
    => \A i \in 1..Len(ret.out) :
         /\ ret.out[i] \in 1..Len(objs)
         /\ PoolGet(pool, ToPropertyKey(Id(ret.out[i]))) = ret.out[i]

\* A query has returned an Entity while another instance, displaced from
\* the pool by one of the same identity, is not listed.
C10_Witness ==
  /\ ret.op \in {"filterObjs", "findObjs"}
  /\ Len(ret.out) > 0
  /\ \E e \in 1..Len(objs) : e \notin Listed

\* p is c, or c up to one of its ":".
IsSegmentPrefix(p, c) ==
  \/ p = c
  \/ /\ Len(p) < Len(c)
     /\ SubSeq(c, 1, Len(p)) = p
     /\ c[Len(p) + 1] = ":"

\* The calls a fire of c makes when h holds the handlers: those under the
\* segment prefixes of c of length len or less, the longest first.
RECURSIVE CascadeOf(_, _, _, _)
CascadeOf(c, h, rest, len) ==
  IF len < 0 THEN <<>>
  ELSE LET p == SubSeq(c, 1, len)
           hs == IF IsSegmentPrefix(p, c) THEN HandlersOf(h, p) ELSE <<>>
       IN [i \in 1..Len(hs) |-> [n |-> p, r |-> hs[i], rest |-> rest]]
            \o CascadeOf(c, h, rest, len - 1)

NoneFires(h, hs) ==
  \A i \in 1..Len(hs) : regs[hs[i]].fn.act \notin {"_fireEvent", "setWithWorker"}

\* C4: a fire of "sheetWorkerCompleted" whose registered handlers do not
\* themselves publish calls each of them once, in registration order, and
\* leaves the list empty; with the list empty it calls none.
C4_OneShot ==
  (/\ ret.op = "_fireEvent"
   /\ ret.threw = ""
   /\ ret.arg.name = sheetWorkerCompleted
   /\ NoneFires(ret.arg.h0, HandlersOf(ret.arg.h0, sheetWorkerCompleted)))
    => LET hs == HandlersOf(ret.arg.h0, sheetWorkerCompleted)
       IN /\ ret.out = [i \in 1..Len(hs) |->
                          [n |-> sheetWorkerCompleted, r |-> hs[i], rest |-> ret.arg.rest]]
          /\ \A i, j \in 1..Len(hs) : i < j => hs[i] < hs[j]
          /\ HandlersOf(ret.arg.h1, sheetWorkerCompleted) = <<>>

\* Two handlers were registered and called once each by a fire, and the fire
\* made after it, with no registration in between, has called none.
C4_Witness ==
  /\ stack = <<>>
  /\ ret.op = "_fireEvent"
  /\ ret.arg.name = sheetWorkerCompleted
  /\ ret.out = <<>>
  /\ Len(regs) = 2
  /\ \A r \in 1..2 : regs[r].name = sheetWorkerCompleted /\ calls[r] = 1

\* C5: the handler of a registration under "sheetWorkerCompleted" is called
\* at most once.
C5_AtMostOnce ==
  \A r \in 1..Len(regs) : regs[r].name = sheetWorkerCompleted => calls[r] <= 1

\* The kind of instance e: the _type the constructor gave it, which get and
\* setWithWorker test.
Kind(e) == Prop(bags[objs[e]], "_type")

\* C11: a construction, by new Roll20Object or createObj, with or without an
\* identity supplied, de-registers no instance: every instance getAllObjs()
\* listed before it is listed after it.
C11_NoEviction ==
  [][ret'.op \in {"new", "createObj"} => Listed \subseteq Listed']_vars

AsyncKinds == {Str(CHARACTER), Str(HANDOUT)}
AsyncNames == {"notes", "gmnotes", "bio"}

\* C13: get(key) without a callback throws exactly when the kind is
\* character or handout and key is notes, gmnotes or bio; otherwise it returns
\* the value of the field; and a get changes neither the instance nor the pool.
C13_GetWithoutCallback ==
  [][(ret'.op = "get" /\ ~ret'.arg.cb)
       => /\ ret'.threw # "" <=> (Kind(ret'.e) \in AsyncKinds /\ ret'.arg.key \in AsyncNames)
          /\ ret'.threw = "" => ret'.out = <<Prop(bags[objs[ret'.e]], ret'.arg.key)>>
          /\ UNCHANGED <<objs, bags, pool>>]_vars

\* get("notes") without a callback has thrown on a character whose notes a
\* set had written.
C13_Witness ==
  /\ ret.op = "get"
  /\ ~ret.arg.cb
  /\ ret.threw # ""
  /\ Prop(bags[objs[ret.e]], "notes") = Str(abe)

\* C14: get(key, cb) does not throw and calls cb once, with the value the
\* field holds, whatever the kind and the key.
C14_GetWithCallback ==
  (ret.op = "get" /\ ret.arg.cb)
    => /\ ret.threw = ""
       /\ ret.out = <<Prop(bags[objs[ret.e]], ret.arg.key)>>

\* get("notes", cb) on a character has called cb with the value a set wrote.
C14_Witness ==
  /\ ret.op = "get"
  /\ ret.arg.cb
  /\ ret.arg.key = "notes"
  /\ Kind(ret.e) = Str(CHARACTER)
  /\ ret.out = <<Str(abe)>>

\* C15: setWithWorker called by the script on an instance whose kind is not
\* attribute throws at once: no field of any instance, and nothing of the
\* pool, changes; no fire starts, so no handler is called, and the handlers
\* registered under "sheetWorkerCompleted" stay registered.
C15_SetWithWorkerOtherKind ==
  [][\A e \in 1..Len(objs) :
       (SetWithWorker(e, WorkerChanges) /\ Kind(e) # Str(ATTRIBUTE))
         => /\ ret'.op = "setWithWorker" /\ ret'.e = e /\ ret'.threw = "Error"
            /\ UNCHANGED <<objs, bags, pool, handlers, regs, calls, stack>>]_vars

\* setWithWorker has thrown on a character while a callback was registered
\* under "sheetWorkerCompleted".
C15_Witness ==
  /\ stack = <<>>
  /\ ret.op = "setWithWorker"
  /\ ret.threw = "Error"
  /\ Kind(ret.e) = Str(CHARACTER)
  /\ HandlersOf(handlers, sheetWorkerCompleted) # <<>>

\* The registrations the handler lists h hold.
RegisteredIn(h) == UNION {{h[n][j] : j \in 1..Len(h[n])} : n \in DOMAIN h}

\* C20: every handler a fire calls was registered when the fire began: a
\* handler registered during the fire, under the fired name or a less specific
\* prefix of it, is not called by that fire.
C20_RegisteredDuringFire ==
  (ret.op = "_fireEvent" /\ ret.threw = "")
    => \A i \in 1..Len(ret.out) : ret.out[i].r \in RegisteredIn(ret.arg.h0)

\* The implementation library() resolved for key k: what the wrapper
\* registered for k was applied to, or without one the bound value.
ResolvedOf(k) ==
  IF k \in DOMAIN WRAPPERS(cfg) THEN api[k].fn ELSE api[k]

\* What the host exposes under the name k: the global of that name.
HostSymbol(k) == Prop(scopes.globalThis.kv, k)

\* C16: when library() returns, the implementation resolved for each key
\* is the global function of that name where the host has one, and the mock
\* otherwise: where the host has no global of that name, or one that is not a
\* function.
C16_HostFirst ==
  ops = 0
    => \A k \in DOMAIN api :
         ResolvedOf(k) = IF typeof(HostSymbol(k)) = "function"
                         THEN HostSymbol(k)
                         ELSE MOCKS(cfg)[k]

\* The function values a host holds, as globals or in the object under the
\* empty name.
HostValues(k) ==
  {HostSymbol(k)} \cup
  (IF typeof(HostSymbol(<<>>)) = "object" THEN {Prop(HostSymbol(<<>>).kv, k)} ELSE {})

\* C17: when library() returns, a key a wrapper is registered for is bound
\* to what that wrapper returned, applied once, for an implementation of the
\* host or the mock, and with nothing of that name in the host for the mock;
\* a key without wrapper is bound to no wrapper's function. A call through
\* api enters the wrapper first and the function it was applied to after it,
\* and what the innermost function throws, the call throws.
C17_Wrappers ==
  /\ ops = 0
       => \A k \in DOMAIN api :
            IF k \in DOMAIN WRAPPERS(cfg)
            THEN /\ typeof(api[k]) = "function"
                 /\ api[k].of = WRAPPERS(cfg)[k].of
                 /\ api[k].fn \in HostValues(k) \cup {MOCKS(cfg)[k]}
                 /\ HostValues(k) = {Undefined} => api[k].fn = MOCKS(cfg)[k]
                 /\ typeof(api[k].fn) = "function" => typeof(api[k].fn.fn) = "undefined"
            ELSE /\ api[k] \in HostValues(k) \cup {MOCKS(cfg)[k]}
                 /\ typeof(api[k]) = "function" => typeof(api[k].fn) = "undefined"
  /\ ret.op = "api"
       => /\ typeof(ret.arg.fn) = "function" /\ typeof(ret.arg.fn.fn) # "undefined"
               => /\ ret.out[1] = [of |-> ret.arg.fn.of, k |-> ret.arg.k]
                  /\ typeof(ret.arg.fn.fn) = "function"
                       => /\ Len(ret.out) = 2
                          /\ ret.out[2] = [of |-> ret.arg.fn.fn.of, k |-> ret.arg.fn.fn.k]
                  /\ typeof(ret.arg.fn.fn) # "function" => ret.threw = "TypeError"
          /\ ret.arg.hostThrows => ret.threw = "Error"

\* api.sendChat has been called where cfg.wrappers holds a wrapper for it
\* and the host has no sendChat: the wrapper was entered, and the mock after it.
C17_Witness ==
  /\ ret.op = "api"
  /\ ret.arg.k = kSendChat
  /\ kSendChat \in DOMAIN cfg.wrappers
  /\ HostValues(kSendChat) = {Undefined}
  /\ ret.out = <<[of |-> "cfg.wrappers", k |-> kSendChat], [of |-> "MOCKS", k |-> kSendChat]>>

\* C18: no call on the instance changes what a key of api is bound to: api
\* changes only where the script assigns to it.
C18_BoundOnce ==
  [][Assign(kSendChat, Fn("script", kSendChat)) \/ api' = api]_vars

\* After a Campaign lookup, _promote has copied sendChat to the global object
\* of a host whose this is that object.
C18_Witness ==
  /\ ret.op = "_promote"
  /\ ret.arg.scope = "undefined"
  /\ thisIs = "globalThis"
  /\ campaign # 0
  /\ Prop(scopes.globalThis.kv, kSendChat) = api[kSendChat]

\* The names a call of _promote asks for.
Requested(a) ==
  IF a.keys = Undefined THEN DOMAIN api
  ELSE IF a.keys.t = "string" THEN {a.keys.s}
  ELSE {a.keys.a[i] : i \in 1..Len(a.keys.a)}

\* The namespace a call of _promote names as its target, in the namespaces sc.
TargetOf(sc, a) ==
  getScope(namesOf(a.nameOrNames), originOf(sc, thisIs, a.scope).origin).s

RegistrationsOf(rg, n, f) ==
  {r \in 1..Len(rg) : rg[r].name = n /\ rg[r].fn = f}

\* The calls of the log out made at level n to a registration of rs.
CallsAt(out, n, rs) ==
  {i \in 1..Len(out) : out[i].n = n /\ out[i].r \in rs}

C22_EmptyStoreQueries ==
  (ret.op \in {"getAllObjs", "filterObjs", "findObjs"} /\ pool = <<>>)
    => ret.out = <<>> /\ ret.threw = ""

\* C23: playerIsGM(q) of the mock answers true exactly when q is the identity
\* the last _setAsGM was called with, and false for every player before any
\* _setAsGM; no two players are GM at once; and no call other than _setAsGM
\* (constructing, writing, removing, registering, firing) changes _GM.
C23_PlayerIsGM ==
  [][/\ \A p \in PlayerIds : SetAsGM(p) => GM' = p
     /\ (\E p \in PlayerIds : SetAsGM(p)) \/ GM' = GM
     /\ \A q \in PlayerIds :
          ApiPlayerIsGM(q)
            => /\ ret'.threw = ""
               /\ ret'.diag = 1 <=> (GM # Undefined /\ GM = q)
               /\ GM' = GM
     /\ Cardinality({q \in PlayerIds : playerIsGM(GM', q)}) <= 1]_vars

\* One player has been set as GM, then another: playerIsGM of the first
\* answers false.
C23_Witness ==
  /\ GM = Str(<<"x", "-", "2">>)
  /\ ret.op = "api"
  /\ ret.arg.k = kPlayerIsGM
  /\ ret.arg.playerId = Str(<<"x", "-", "1">>)
  /\ ret.diag = 0
  /\ ops = 3

\* C24: every api.Campaign() that reaches the mock returns an instance whose
\* _type is "campaign" and whose identity is a non-empty string; once one has
\* been returned every later call returns the same instance and constructs
\* nothing; and no other call changes which instance that is.
C24_CampaignSingleton ==
  [][/\ \A u \in Uuids \cup {<<>>} :
          (ApiCampaign(u) /\ Mocked(api[kCampaign], kCampaign))
            => /\ ret'.threw = ""
               /\ ret'.e \in 1..Len(objs')
               /\ ret'.e = campaign'
               /\ Prop(bags'[objs'[ret'.e]], "_type") = Str(CAMPAIGN)
               /\ Prop(bags'[objs'[ret'.e]], "_id").t = "string"
               /\ Prop(bags'[objs'[ret'.e]], "_id").s # <<>>
               /\ campaign # 0 => ret'.e = campaign /\ objs' = objs /\ bags' = bags
               /\ Len(objs') <= Len(objs) + 1
     /\ campaign # 0 => campaign' = campaign
     /\ (\E u \in Uuids \cup {<<>>} : ApiCampaign(u)) \/ campaign' = campaign]_vars

\* Campaign() has been called, an attribute created, and Campaign() called
\* again: the second call returned the instance the first constructed, the
\* only campaign there is.
C24_Witness ==
  /\ ret.op = "api"
  /\ ret.arg.k = kCampaign
  /\ ret.e = campaign
  /\ campaign = 1
  /\ Len(objs) = 2
  /\ Kind(2) = Str(ATTRIBUTE)
  /\ Cardinality({e \in 1..Len(objs) : Kind(e) = Str(CAMPAIGN)}) = 1

\* The object o holds every change but those of the immutable keys.
Accepted(o, changes) ==
  \A i \in 1..Len(changes) :
    changes[i][1] \notin ImmutableNames => Prop(o, changes[i][1]) = changes[i][2]

\* C25: setWithWorker(changes) on an attribute leaves the immutable keys as
\* they were and writes every other key, as set does, and then begins one
\* fire of "sheetWorkerCompleted" without arguments over the callbacks
\* registered; each callback of that fire is called without arguments on the
\* attribute holding every accepted change, and the fire, when it returns, has
\* called each of those callbacks once.
C25_SetWithWorkerAttribute ==
  [][/\ \A e \in 1..Len(objs) :
          (SetWithWorker(e, WorkerChanges) /\ Kind(e) = Str(ATTRIBUTE))
            => /\ bags' = set(Store, e, Changes(WorkerChanges), Undefined).st.bags
               /\ \A k \in ImmutableNames :
                    Prop(bags'[objs[e]], k) = Prop(bags[objs[e]], k)
               /\ Accepted(bags'[objs[e]], WorkerChanges)
               /\ Len(stack') = 1
               /\ stack'[1].op = "setWithWorker"
               /\ stack'[1].e = e
               /\ stack'[1].name = sheetWorkerCompleted
               /\ stack'[1].rest = <<>>
               /\ stack'[1].hs = HandlersOf(handlers, sheetWorkerCompleted)
               /\ stack'[1].i = 1
               /\ UNCHANGED <<objs, pool, handlers, regs, calls>>
     /\ (Invoke /\ Top.op = "setWithWorker")
          => /\ argsOf(Top) = <<>>
             /\ Accepted(bags[objs[Top.e]], WorkerChanges)
     /\ (Return /\ Top.op = "setWithWorker")
          => /\ ret'.op = "setWithWorker"
             /\ ret'.out = [i \in 1..Len(Top.hs) |->
                              [n |-> sheetWorkerCompleted, r |-> Top.hs[i], rest |-> <<>>]]
             /\ Accepted(bags'[objs[Top.e]], WorkerChanges)]_vars

\* setWithWorker on an attribute has returned after calling a callback: the
\* attribute holds the accepted value, and the identity it had.
C25_Witness ==
  /\ stack = <<>>
  /\ ret.op = "setWithWorker"
  /\ ret.threw = ""
  /\ Len(ret.out) >= 1
  /\ Kind(ret.e) = Str(ATTRIBUTE)
  /\ Prop(bags[objs[ret.e]], "current") = Str(abe)
  /\ Prop(bags[objs[ret.e]], "_id") # Str(<<"x", "-", "2">>)

\* C26: no registration under "sheetWorkerCompleted" leaves the list before
\* its handler has been called: a callback registered while a fire of
\* "sheetWorkerCompleted" is in progress stays listed for the next fire.
C26_NoRegistrationLost ==
  [][\A j \in 1..Len(HandlersOf(handlers, sheetWorkerCompleted)) :
       LET r == HandlersOf(handlers, sheetWorkerCompleted)[j]
           after == HandlersOf(handlers', sheetWorkerCompleted)
       IN (\E k \in 1..Len(after) : after[k] = r) \/ calls'[r] >= 1]_vars

\* C27: a fire of "sheetWorkerCompleted", begun by _fireEvent or by
\* setWithWorker, ends by returning, also when a callback it calls itself
\* calls setWithWorker or fires "sheetWorkerCompleted": the fires nested in it
\* never exhaust the call stack.
C27_FireCompletes ==
  ret.op \in {"_fireEvent", "setWithWorker"} => ret.threw # "RangeError"

====
